---- MODULE Spec2Model ----
(***************************************************************************)
(* libdebug command-line options (src/src/libdebug/dcmdarg.cpp).           *)
(*                                                                         *)
(* The state is the process-wide DebugCmdArgs holder, the domain map of    *)
(* the DebugState (domain -> level bit -> logger) and the result of the    *)
(* most recent GLib callback.  The operations are the option entries       *)
(* registered by debug_get_option_group(), the --debug-levels callback and *)
(* the post-parse hook.                                                    *)
(*                                                                         *)
(* Spec      one g_option_context_parse() call from construction: options  *)
(*           and callbacks, then the post-parse hook taken statement by    *)
(*           statement (one logger per step)                               *)
(* SpecHook  the post-parse hook as one operation, applied to every holder *)
(*           and domain map the option parser can hand to it               *)
(***************************************************************************)
EXTENDS Integers, Sequences, FiniteSets, TLC

VARIABLES
    verbose,            \* DebugCmdArgs::verbose
    quiet,              \* DebugCmdArgs::quiet
    verbosity_level,    \* DebugCmdArgs::verbosity_level
    debug_levels,       \* DebugCmdArgs::debug_levels (vector of strings)
    debug_colorize,     \* DebugCmdArgs::debug_colorize
    levels_enabled,     \* DebugCmdArgs::levels_enabled (bitset, as its to_ulong() value)
    dm,                 \* DebugState domain map: domain -> (level bit -> logger)
    ret,                \* return value of the most recent callback
    branch,             \* branch taken by the hook that last returned ("none" after any other step)
    hook_runs,          \* number of hook runs since the last option was parsed
    pc,                 \* position inside debug_internal_post_parse_func ("idle" outside of it)
    iter,               \* position of the propagation loop in the domain map
    color_enabled,      \* local of the hook
    levels_enabled_ulong \* local of the hook

args == <<verbose, quiet, verbosity_level, debug_levels, debug_colorize, levels_enabled>>
locals == <<pc, iter, color_enabled, levels_enabled_ulong>>
vars == <<verbose, quiet, verbosity_level, debug_levels, debug_colorize, levels_enabled,
          dm, ret, branch, hook_runs, pc, iter, color_enabled, levels_enabled_ulong>>

----------------------------------------------------------------------------
(* Bounds of the model *)

\* longest debug_levels vector
MaxLevels == 2
\* longest --debug-levels value, in pieces (a comma or a maximal comma-free run)
MaxPieces == 3
\* --verbosity-level values range over -BelowRange .. 5 + AboveRange
BelowRange == 1
AboveRange == 1
\* hook runs in a row that are followed
MaxHookRuns == 2

----------------------------------------------------------------------------
(* debug_level and debug_format flags (dflags.h) *)

dump == 2^0
info == 2^1
warn == 2^2
error == 2^3
fatal == 2^4
none == 0

RECURSIVE BitAnd(_, _)
BitAnd(a, b) ==
    IF a = 0 \/ b = 0 THEN 0
    ELSE (a % 2) * (b % 2) + 2 * BitAnd(a \div 2, b \div 2)

RECURSIVE BitOr(_, _)
BitOr(a, b) ==
    IF a = 0 THEN b
    ELSE IF b = 0 THEN a
    ELSE (IF (a % 2) + (b % 2) > 0 THEN 1 ELSE 0) + 2 * BitOr(a \div 2, b \div 2)

\* a & ~b
BitAndNot(a, b) == a - BitAnd(a, b)

all == BitOr(dump, BitOr(info, BitOr(warn, BitOr(error, fatal))))

LevelBits == {dump, info, warn, error, fatal}

format_datetime == 2^0
format_level == 2^1
format_domain == 2^2
format_color == 2^3
format_indent == 2^4

FormatBits == {format_datetime, format_level, format_domain, format_color, format_indent}

----------------------------------------------------------------------------
(* Strings.  A string is the sequence of its pieces: a comma, or a maximal  *)
(* run of characters other than a comma; two runs are never adjacent.       *)

Comma == ","
\* the names the hook looks for, and one it does not
LevelNames == {"dump", "info", "warn", "error", "fatal"}
Names == LevelNames \cup {"bogus"}
\* the runs the --debug-levels values are made of
Runs == {"warn", "error", "bogus"}
Pieces == Runs \cup {Comma}

\* a const gchar* value: a null pointer, or a string
NullValue == [null |-> TRUE, str |-> <<>>]

IsString(s) == \A i \in 1..(Len(s) - 1) : ~(s[i] \in Runs /\ s[i + 1] \in Runs)

Strings == UNION {{s \in [1..n -> Pieces] : IsString(s)} : n \in 0..MaxPieces}

Values == {[null |-> FALSE, str |-> s] : s \in Strings} \cup {NullValue}

\* std::find(v.begin(), v.end(), name) != v.end()
Found(v, name) == \E i \in 1..Len(v) : v[i] = name

\* hz::string_split(str, ',', append_here, skip_empty): the segments of str
\* between commas are appended to append_here, the empty ones skipped on request
RECURSIVE SplitFrom(_, _, _, _, _)
SplitFrom(str, i, cur, out, skip_empty) ==
    LET emit(o) == IF cur = "" /\ skip_empty THEN o ELSE Append(o, cur)
    IN  IF i > Len(str) THEN emit(out)
        ELSE IF str[i] = Comma THEN SplitFrom(str, i + 1, "", emit(out), skip_empty)
        ELSE SplitFrom(str, i + 1, str[i], out, skip_empty)

string_split(str, append_here, skip_empty) == SplitFrom(str, 1, "", append_here, skip_empty)

----------------------------------------------------------------------------
(* The domain map *)

DomainOrder == <<"app", "default">>
Domains == {DomainOrder[i] : i \in 1..Len(DomainOrder)}

DomainLevels(d) == IF d = "default" THEN LevelBits ELSE {warn, error}

RECURSIVE Ascending(_)
Ascending(S) ==
    IF S = {} THEN <<>>
    ELSE LET m == CHOOSE x \in S : \A y \in S : x <= y
         IN  <<m>> \o Ascending(S \ {m})

RECURSIVE KeysFrom(_)
KeysFrom(i) ==
    IF i > Len(DomainOrder) THEN <<>>
    ELSE LET lv == Ascending(DomainLevels(DomainOrder[i]))
         IN  [k \in 1..Len(lv) |-> <<DomainOrder[i], lv[k]>>] \o KeysFrom(i + 1)

\* the (domain, level) keys in the order the two range-for loops visit them
LoopOrder == KeysFrom(1)

\* every domain set up alike: warn, error and fatal enabled, one format for all
DefaultDomainMap ==
    [d \in Domains |-> [b \in DomainLevels(d) |->
        [enabled |-> BitAnd(BitOr(warn, BitOr(error, fatal)), b) # 0,
         format |-> BitOr(format_level, BitOr(format_color, format_indent))]]]

\* domains and levels set up one by one
CustomDomainMap ==
    [d \in Domains |-> [b \in DomainLevels(d) |->
        IF d = "app"
        THEN [enabled |-> TRUE, format |-> BitOr(format_datetime, format_domain)]
        ELSE [enabled |-> b \in {dump, error},
              format |-> IF b \in {dump, info} THEN BitOr(format_color, format_datetime)
                         ELSE format_level]]]

InitialDomainMaps == {DefaultDomainMap, CustomDomainMap}

----------------------------------------------------------------------------
(* debug_internal_post_parse_func: resolution of levels_enabled *)

\* the chain with the verbose test ahead of the quiet test
PostParseBranch_VerboseFirst(levels, q, v) ==
    IF levels # <<>> THEN "explicit"
    ELSE IF v THEN "verbose"
    ELSE IF q THEN "quiet"
    ELSE "numeric"

\* the branch of the if / else-if chain that is taken
PostParseBranch(levels, q, v) ==
    IF levels # <<>> THEN "explicit"
    ELSE IF q THEN "quiet"
    ELSE IF v THEN "verbose"
    ELSE "numeric"

\* the first branch with the warn bit ORed in for "info"
ExplicitLevels_InfoAsWarn(prev, levels) ==
    LET l0 == none
        l1 == BitOr(l0, IF Found(levels, "dump") THEN dump ELSE none)
        l2 == BitOr(l1, IF Found(levels, "info") THEN warn ELSE none)
        l3 == BitOr(l2, IF Found(levels, "warn") THEN warn ELSE none)
        l4 == BitOr(l3, IF Found(levels, "error") THEN error ELSE none)
        l5 == BitOr(l4, IF Found(levels, "fatal") THEN fatal ELSE none)
    IN  l5

\* the first branch without its reset
ExplicitLevels_NoReset(prev, levels) ==
    LET l0 == prev
        l1 == BitOr(l0, IF Found(levels, "dump") THEN dump ELSE none)
        l2 == BitOr(l1, IF Found(levels, "info") THEN info ELSE none)
        l3 == BitOr(l2, IF Found(levels, "warn") THEN warn ELSE none)
        l4 == BitOr(l3, IF Found(levels, "error") THEN error ELSE none)
        l5 == BitOr(l4, IF Found(levels, "fatal") THEN fatal ELSE none)
    IN  l5

\* first branch: prev is args->levels_enabled on entry
ExplicitLevels(prev, levels) ==
    LET l0 == none
        l1 == BitOr(l0, IF Found(levels, "dump") THEN dump ELSE none)
        l2 == BitOr(l1, IF Found(levels, "info") THEN info ELSE none)
        l3 == BitOr(l2, IF Found(levels, "warn") THEN warn ELSE none)
        l4 == BitOr(l3, IF Found(levels, "error") THEN error ELSE none)
        l5 == BitOr(l4, IF Found(levels, "fatal") THEN fatal ELSE none)
    IN  l5

\* the last branch with dump enabled above 5 only
NumericLevels_DumpAboveFive(prev, vl) ==
    LET l0 == none
        l1 == IF vl > 0 THEN BitOr(l0, fatal) ELSE l0
        l2 == IF vl > 1 THEN BitOr(l1, error) ELSE l1
        l3 == IF vl > 2 THEN BitOr(l2, warn) ELSE l2
        l4 == IF vl > 3 THEN BitOr(l3, info) ELSE l3
        l5 == IF vl > 5 THEN BitOr(l4, dump) ELSE l4
    IN  l5

\* the last branch with >= for >
NumericLevels_AtLeast(prev, vl) ==
    LET l0 == none
        l1 == IF vl >= 0 THEN BitOr(l0, fatal) ELSE l0
        l2 == IF vl >= 1 THEN BitOr(l1, error) ELSE l1
        l3 == IF vl >= 2 THEN BitOr(l2, warn) ELSE l2
        l4 == IF vl >= 3 THEN BitOr(l3, info) ELSE l3
        l5 == IF vl >= 4 THEN BitOr(l4, dump) ELSE l4
    IN  l5

\* last branch: prev is args->levels_enabled on entry
NumericLevels(prev, vl) ==
    LET l0 == none
        l1 == IF vl > 0 THEN BitOr(l0, fatal) ELSE l0
        l2 == IF vl > 1 THEN BitOr(l1, error) ELSE l1
        l3 == IF vl > 2 THEN BitOr(l2, warn) ELSE l2
        l4 == IF vl > 3 THEN BitOr(l3, info) ELSE l3
        l5 == IF vl > 4 THEN BitOr(l4, dump) ELSE l4
    IN  l5

\* args->levels_enabled after the chain
ResolveLevels(prev, levels, q, v, vl) ==
    LET b == PostParseBranch(levels, q, v)
    IN  CASE b = "explicit" -> ExplicitLevels(prev, levels)
          [] b = "quiet" -> none
          [] b = "verbose" -> all
          [] b = "numeric" -> NumericLevels(prev, vl)
          [] OTHER -> prev

----------------------------------------------------------------------------
(* debug_internal_post_parse_func: propagation to the loggers *)

\* the loop body enabling a logger when any level is enabled
UpdateLogger_AnyLevel(logger, bit, ulong, color) ==
    [enabled |-> ulong # 0,
     format |-> IF color THEN BitOr(logger.format, format_color)
                ELSE BitAndNot(logger.format, format_color)]

\* the loop body with ^= for |=
UpdateLogger_ToggleColor(logger, bit, ulong, color) ==
    [enabled |-> BitAnd(ulong, bit) # 0,
     format |-> IF color
                THEN BitOr(logger.format, format_color) - BitAnd(logger.format, format_color)
                ELSE BitAndNot(logger.format, format_color)]

\* body of the inner loop for the logger stored under level bit `bit`
UpdateLogger(logger, bit, ulong, color) ==
    [enabled |-> BitAnd(ulong, bit) # 0,
     format |-> IF color THEN BitOr(logger.format, format_color)
                ELSE BitAndNot(logger.format, format_color)]

\* the two nested loops, run to their end
UpdateAll(map, ulong, color) ==
    [d \in DOMAIN map |-> [b \in DOMAIN map[d] |-> UpdateLogger(map[d][b], b, ulong, color)]]

----------------------------------------------------------------------------------------------------------------------------------------
(* The state after construction: DebugCmdArgs() for each build, the domain  *)
(* map as populated before the options are parsed                           *)

Constructed ==
    /\ \E win32 \in BOOLEAN, debug_build \in BOOLEAN :
          /\ verbose = win32
          /\ debug_colorize = ~win32
          /\ verbosity_level = IF debug_build THEN 5 ELSE 3
    /\ quiet = FALSE
    /\ debug_levels = <<>>
    /\ levels_enabled = none
    /\ dm \in InitialDomainMaps
    /\ ret = TRUE
    /\ branch = "none"
    /\ hook_runs = 0
    /\ pc = "idle"
    /\ iter = 0
    /\ color_enabled = FALSE
    /\ levels_enabled_ulong = 0

----------------------------------------------------------------------------
(* The option entries of debug_get_option_group().  The parser stops at the *)
(* first callback that fails, and the holder is not changed once the hook   *)
(* has consumed it.                                                         *)

VerbosityValues == (0 - BelowRange)..(5 + AboveRange)

Parsing == pc = "idle" /\ ret /\ hook_runs = 0

\* what every step of the option parser leaves alone
Parsed == UNCHANGED <<dm, levels_enabled, branch, hook_runs, locals>>

\* --verbose, -v
OptVerbose ==
    /\ Parsing
    /\ verbose' = TRUE
    /\ Parsed
    /\ UNCHANGED <<quiet, verbosity_level, debug_levels, debug_colorize, ret>>

\* --quiet, -q
OptQuiet ==
    /\ Parsing
    /\ quiet' = TRUE
    /\ Parsed
    /\ UNCHANGED <<verbose, verbosity_level, debug_levels, debug_colorize, ret>>

\* --verbosity-level, -b
OptVerbosityLevel ==
    /\ Parsing
    /\ \E n \in VerbosityValues : verbosity_level' = n
    /\ Parsed
    /\ UNCHANGED <<verbose, quiet, debug_levels, debug_colorize, ret>>

\* --debug-colorize
OptColorize ==
    /\ Parsing
    /\ debug_colorize' = TRUE
    /\ Parsed
    /\ UNCHANGED <<verbose, quiet, verbosity_level, debug_levels, ret>>

\* --debug-no-colorize
OptNoColorize ==
    /\ Parsing
    /\ debug_colorize' = FALSE
    /\ Parsed
    /\ UNCHANGED <<verbose, quiet, verbosity_level, debug_levels, ret>>

\* the callback passing skip_empty = false
debug_internal_parse_levels_KeepEmpty(value) ==
    /\ Parsing
    /\ IF value.null
       THEN /\ ret' = FALSE
            /\ UNCHANGED debug_levels
       ELSE /\ debug_levels' = string_split(value.str, debug_levels, FALSE)
            /\ Len(debug_levels') <= MaxLevels
            /\ ret' = TRUE
    /\ Parsed
    /\ UNCHANGED <<verbose, quiet, verbosity_level, debug_colorize>>

\* the --debug-levels callback on `value`
debug_internal_parse_levels(value) ==
    /\ Parsing
    /\ IF value.null
       THEN /\ ret' = FALSE
            /\ UNCHANGED debug_levels
       ELSE /\ debug_levels' = string_split(value.str, debug_levels, TRUE)
            /\ Len(debug_levels') <= MaxLevels
            /\ ret' = TRUE
    /\ Parsed
    /\ UNCHANGED <<verbose, quiet, verbosity_level, debug_colorize>>

OptDebugLevels == \E value \in Values : debug_internal_parse_levels(value)

----------------------------------------------------------------------------
(* The post-parse hook, statement by statement *)

\* lines 106-141: the if / else-if chain, then the two locals
HookResolve ==
    /\ pc = "idle"
    /\ ret
    /\ hook_runs < MaxHookRuns
    /\ branch' = PostParseBranch(debug_levels, quiet, verbose)
    /\ levels_enabled' = ResolveLevels(levels_enabled, debug_levels, quiet, verbose,
                                       verbosity_level)
    /\ color_enabled' = debug_colorize
    /\ levels_enabled_ulong' = levels_enabled'
    /\ iter' = 1
    /\ pc' = "loop"
    /\ UNCHANGED <<verbose, quiet, verbosity_level, debug_levels, debug_colorize,
                   dm, ret, hook_runs>>

\* the loops leaving before the last key
Remaining_StopsEarly(i) == SubSeq(LoopOrder, i, Len(LoopOrder) - 1)

\* the keys the loops still have to visit, the next one first
Remaining(i) == SubSeq(LoopOrder, i, Len(LoopOrder))

\* lines 143-154: one pass through the body of the inner loop
HookVisit ==
    /\ pc = "loop"
    /\ Remaining(iter) # <<>>
    /\ LET d == Head(Remaining(iter))[1]
           b == Head(Remaining(iter))[2]
       IN  dm' = [dm EXCEPT ![d][b] =
                      UpdateLogger(dm[d][b], b, levels_enabled_ulong, color_enabled)]
    /\ iter' = iter + 1
    /\ UNCHANGED <<args, ret, branch, hook_runs, pc, color_enabled, levels_enabled_ulong>>

\* line 157
HookReturn ==
    /\ pc = "loop"
    /\ Remaining(iter) = <<>>
    /\ ret' = TRUE
    /\ hook_runs' = hook_runs + 1
    /\ pc' = "idle"
    /\ iter' = 0
    /\ UNCHANGED <<args, dm, branch, color_enabled, levels_enabled_ulong>>

Next ==
    \/ OptVerbose
    \/ OptQuiet
    \/ OptVerbosityLevel
    \/ OptColorize
    \/ OptNoColorize
    \/ OptDebugLevels
    \/ HookResolve
    \/ HookVisit
    \/ HookReturn

\* the hook is straight-line code: once entered it runs to its return
Spec == Constructed /\ [][Next]_vars /\ WF_vars(HookVisit) /\ WF_vars(HookReturn)

----------------------------------------------------------------------------
(* The post-parse hook as one operation *)

\* an earlier g_option_context_parse() call of the process, if there was one:
\* its hook ran in the numeric branch and left its levels and color in the loggers
EarlierVerbosity == {0, 3, 5}
EarlierRuns ==
    {[ran |-> FALSE, levels |-> none, color |-> FALSE]}
        \cup {[ran |-> TRUE, levels |-> NumericLevels(none, v), color |-> c] :
                 v \in EarlierVerbosity, c \in BOOLEAN}

Vectors == UNION {[1..n -> Names] : n \in 0..MaxLevels}

\* every holder the option parser can hand to the hook
Handover ==
    /\ verbose \in BOOLEAN
    /\ quiet \in BOOLEAN
    /\ verbosity_level \in VerbosityValues
    /\ debug_levels \in Vectors
    /\ debug_colorize \in BOOLEAN
    /\ \E m0 \in InitialDomainMaps, e \in EarlierRuns :
          /\ levels_enabled = e.levels
          /\ dm = IF e.ran THEN UpdateAll(m0, e.levels, e.color) ELSE m0
    /\ ret = TRUE
    /\ branch = "none"
    /\ hook_runs = 0
    /\ pc = "idle"
    /\ iter = 0
    /\ color_enabled = FALSE
    /\ levels_enabled_ulong = 0

\* the hook failing when a name of the vector is not a level
debug_internal_post_parse_func_RejectsUnknown ==
    /\ pc = "idle"
    /\ hook_runs < MaxHookRuns
    /\ branch' = PostParseBranch(debug_levels, quiet, verbose)
    /\ levels_enabled' = ResolveLevels(levels_enabled, debug_levels, quiet, verbose,
                                       verbosity_level)
    /\ color_enabled' = debug_colorize
    /\ levels_enabled_ulong' = levels_enabled'
    /\ dm' = UpdateAll(dm, levels_enabled_ulong', color_enabled')
    /\ ret' = \A i \in DOMAIN debug_levels : debug_levels[i] \in LevelNames
    /\ hook_runs' = hook_runs + 1
    /\ UNCHANGED <<verbose, quiet, verbosity_level, debug_levels, debug_colorize, pc, iter>>

debug_internal_post_parse_func ==
    /\ pc = "idle"
    /\ hook_runs < MaxHookRuns
    /\ branch' = PostParseBranch(debug_levels, quiet, verbose)
    /\ levels_enabled' = ResolveLevels(levels_enabled, debug_levels, quiet, verbose,
                                       verbosity_level)
    /\ color_enabled' = debug_colorize
    /\ levels_enabled_ulong' = levels_enabled'
    /\ dm' = UpdateAll(dm, levels_enabled_ulong', color_enabled')
    /\ ret' = TRUE
    /\ hook_runs' = hook_runs + 1
    /\ UNCHANGED <<verbose, quiet, verbosity_level, debug_levels, debug_colorize, pc, iter>>

SpecHook == Handover /\ [][debug_internal_post_parse_func]_vars

----------------------------------------------------------------------------
(* Vocabulary of the properties *)

\* bit `bit` (a power of two) is set in x
HasBit(x, bit) == (x \div bit) % 2 = 1

NameBit(n) ==
    CASE n = "dump" -> dump
      [] n = "info" -> info
      [] n = "warn" -> warn
      [] n = "error" -> error
      [] n = "fatal" -> fatal

\* verbosity_level must exceed this for the level to be enabled
Threshold(n) ==
    CASE n = "fatal" -> 0
      [] n = "error" -> 1
      [] n = "warn" -> 2
      [] n = "info" -> 3
      [] n = "dump" -> 4

Occurs(n) == \E i \in DOMAIN debug_levels : debug_levels[i] = n

OnlyLevelBits(x) == x \in 0..(2^5 - 1)
IsNone(x) == OnlyLevelBits(x) /\ \A n \in LevelNames : ~HasBit(x, NameBit(n))
IsAll(x) == OnlyLevelBits(x) /\ \A n \in LevelNames : HasBit(x, NameBit(n))

Keys == {<<d, b>> : d \in Domains, b \in LevelBits}
Loggers == {k \in Keys : k[1] \in DOMAIN dm /\ k[2] \in DOMAIN dm[k[1]]}

HookReturned == pc = "idle" /\ hook_runs > 0
NoExplicit == debug_levels = <<>>

\* every logger reflects the level set L and the color flag c
Reflects(L, c) ==
    \A k \in Loggers :
        /\ dm[k[1]][k[2]].enabled <=> HasBit(L, k[2])
        /\ HasBit(dm[k[1]][k[2]].format, format_color) <=> c

----------------------------------------------------------------------------
(* C1: with a non-empty debug_levels vector the hook leaves in              *)
(* levels_enabled exactly the bits of the recognized names that occur in    *)
(* the vector, whatever quiet, verbose and verbosity_level are; names it    *)
(* does not know add no bit, so a vector of unknown names gives none.       *)
C1_ExplicitLevelsExact ==
    (HookReturned /\ ~NoExplicit) =>
        /\ OnlyLevelBits(levels_enabled)
        /\ \A n \in LevelNames : HasBit(levels_enabled, NameBit(n)) <=> Occurs(n)
        /\ ((\A n \in LevelNames : ~Occurs(n)) => levels_enabled = none)

C1_Witness ==
    /\ HookReturned
    /\ debug_levels = <<"warn", "bogus">>
    /\ quiet /\ verbose /\ verbosity_level = 5
    /\ levels_enabled = warn

(* C2: with an empty vector and quiet set the hook resolves to none for     *)
(* every verbose and verbosity_level, and every logger ends up disabled.    *)
C2_QuietWins ==
    (HookReturned /\ NoExplicit /\ quiet) =>
        /\ IsNone(levels_enabled)
        /\ \A k \in Loggers : ~dm[k[1]][k[2]].enabled

C2_Witness ==
    /\ HookReturned /\ NoExplicit /\ quiet /\ verbose /\ verbosity_level = 5
    /\ levels_enabled = none

(* C3: with an empty vector, quiet clear and verbose set the hook resolves  *)
(* to all for every verbosity_level: the set the numeric branch gives for   *)
(* verbosity_level 5.                                                       *)
C3_VerboseIsLevelFive ==
    /\ (HookReturned /\ NoExplicit /\ ~quiet /\ verbose) =>
          /\ IsAll(levels_enabled)
          /\ levels_enabled = NumericLevels(none, 5)
    /\ (HookReturned /\ NoExplicit /\ ~quiet /\ ~verbose /\ verbosity_level = 5) =>
          IsAll(levels_enabled)

C3_Witness ==
    /\ HookReturned /\ NoExplicit /\ ~quiet /\ verbose /\ verbosity_level = 0
    /\ levels_enabled = all

(* C4: in the numeric fallback a level is enabled iff verbosity_level       *)
(* exceeds its threshold (fatal 0, error 1, warn 2, info 3, dump 4), also   *)
(* out of range: none at or below 0, all at or above 5; an enabled level    *)
(* has every more severe level enabled, and a lower verbosity_level never   *)
(* enables a level the current one does not.                                *)
C4_NumericFallback ==
    (HookReturned /\ NoExplicit /\ ~quiet /\ ~verbose) =>
        /\ OnlyLevelBits(levels_enabled)
        /\ \A n \in LevelNames :
              HasBit(levels_enabled, NameBit(n)) <=> verbosity_level > Threshold(n)
        /\ (verbosity_level <= 0 => levels_enabled = none)
        /\ (verbosity_level >= 5 => levels_enabled = all)
        /\ \A b1 \in LevelBits, b2 \in LevelBits :
              (b1 < b2 /\ HasBit(levels_enabled, b1)) => HasBit(levels_enabled, b2)
        /\ \A v \in VerbosityValues : v <= verbosity_level =>
              \A b \in LevelBits :
                  HasBit(NumericLevels(none, v), b) => HasBit(levels_enabled, b)

C4_Witness ==
    /\ HookReturned /\ NoExplicit /\ ~quiet /\ ~verbose
    /\ verbosity_level = 3
    /\ levels_enabled = fatal + error + warn

(* C5: a run of the hook leaves every logger enabled iff its own level bit  *)
(* is in the resolved set, with the color bit of its format equal to        *)
(* debug_colorize and every other format bit as it was before the run.      *)
C5_Propagation ==
    [][hook_runs' = hook_runs + 1 =>
        \A k \in Loggers :
            /\ dm'[k[1]][k[2]].enabled <=> HasBit(levels_enabled', k[2])
            /\ HasBit(dm'[k[1]][k[2]].format, format_color) <=> debug_colorize
            /\ \A f \in FormatBits \ {format_color} :
                  HasBit(dm'[k[1]][k[2]].format, f) <=> HasBit(dm[k[1]][k[2]].format, f)
            /\ dm'[k[1]][k[2]].format \in 0..(2^5 - 1)]_vars

C5_Witness ==
    /\ HookReturned
    /\ levels_enabled = warn
    /\ ~debug_colorize
    /\ dm["default"][warn].enabled /\ ~dm["default"][error].enabled
    /\ ~dm["app"][error].enabled
    /\ dm["default"][dump].format = format_datetime

(* C6: a second run of the hook right after a first, on the same holder and *)
(* domain map, changes neither a logger nor levels_enabled.                 *)
C6_Idempotent ==
    [][(hook_runs >= 1 /\ hook_runs' = hook_runs + 1) =>
        (dm' = dm /\ levels_enabled' = levels_enabled)]_vars

C6_Witness ==
    /\ pc = "idle" /\ hook_runs = 2
    /\ debug_levels = <<"dump", "fatal">>
    /\ debug_colorize
    /\ dm["default"][dump].enabled /\ ~dm["app"][warn].enabled

(* C7: the hook has no error outcome: for every vector (unknown names       *)
(* included), quiet, verbose and verbosity_level (out of range included)    *)
(* exactly one of the four branches is taken, the one whose condition is    *)
(* the first to hold; the hook returns true and levels_enabled holds only   *)
(* bits of the five levels.                                                 *)
C7_Total ==
    HookReturned =>
        /\ ret = TRUE
        /\ OnlyLevelBits(levels_enabled)
        /\ branch \in {"explicit", "quiet", "verbose", "numeric"}
        /\ branch = "explicit" <=> ~NoExplicit
        /\ branch = "quiet" <=> (NoExplicit /\ quiet)
        /\ branch = "verbose" <=> (NoExplicit /\ ~quiet /\ verbose)
        /\ branch = "numeric" <=> (NoExplicit /\ ~quiet /\ ~verbose)

C7_Witness ==
    /\ HookReturned
    /\ debug_levels = <<"bogus">> /\ quiet /\ verbose
    /\ verbosity_level = 0 - BelowRange
    /\ branch = "explicit" /\ ret /\ levels_enabled = none

(* C10: a run of the hook changes, in the holder, only levels_enabled, and  *)
(* in the domain map only loggers that are already there: the vector,       *)
(* quiet, verbose, verbosity_level and debug_colorize keep their values,    *)
(* the domains and the level keys of each domain are the same, and the new  *)
(* levels_enabled is determined by the four inputs alone, whatever          *)
(* levels_enabled was before.                                               *)
C10_Frame ==
    [][hook_runs' = hook_runs + 1 =>
        /\ <<verbose, quiet, verbosity_level, debug_levels, debug_colorize>>'
              = <<verbose, quiet, verbosity_level, debug_levels, debug_colorize>>
        /\ DOMAIN dm' = DOMAIN dm
        /\ \A d \in DOMAIN dm : DOMAIN dm'[d] = DOMAIN dm[d]
        /\ OnlyLevelBits(levels_enabled')
        /\ \A n \in LevelNames :
              HasBit(levels_enabled', NameBit(n)) <=>
                  IF ~NoExplicit THEN Occurs(n)
                  ELSE IF quiet THEN FALSE
                  ELSE IF verbose THEN TRUE
                  ELSE verbosity_level > Threshold(n)]_vars

C10_Witness ==
    /\ pc = "idle" /\ hook_runs = 1
    /\ debug_levels = <<"fatal", "fatal">>
    /\ levels_enabled = fatal
    /\ DOMAIN dm = Domains

(* C8, read for every state outside the hook: all loggers reflect one and   *)
(* the same (level set, color) pair.                                        *)
C8_AlwaysOnePair ==
    pc = "idle" => \E L \in 0..(2^5 - 1), c \in BOOLEAN : Reflects(L, c)

(* C8: the propagation is one pass that always ends with every logger       *)
(* visited: the level set and the color flag are fixed before the first     *)
(* logger is touched, while the pass runs nothing but its loggers changes,  *)
(* and once the hook has returned all loggers reflect the one pair the pass *)
(* fixed.  Before the first run the domain map is as it was populated.      *)
C8_SinglePass ==
    /\ [](HookReturned => Reflects(levels_enabled_ulong, color_enabled))
    /\ []((pc = "idle" /\ hook_runs = 0) => dm \in InitialDomainMaps)
    /\ [][pc = "loop" =>
            /\ UNCHANGED <<args, color_enabled, levels_enabled_ulong, branch>>
            /\ levels_enabled_ulong = levels_enabled
            /\ color_enabled = debug_colorize
            /\ (pc' = "idle" => Len(LoopOrder) = Cardinality(Loggers) /\ iter > Len(LoopOrder))]_vars
    /\ ((pc = "loop") ~> HookReturned)

C8_Witness ==
    /\ HookReturned
    /\ levels_enabled_ulong = warn + error /\ ~color_enabled
    /\ Reflects(warn + error, FALSE)
    /\ ~(dm \in InitialDomainMaps)

(* C9: the --debug-levels callback appends the non-empty comma-separated    *)
(* segments of its value to the vector, in order, and returns true, so  a   *)
(* value without any such segment leaves the vector as it was and an empty  *)
(* vector keeps the hook out of the explicit branch; with a null value it   *)
(* returns false and leaves the holder unchanged.                           *)
IsRun(piece) == piece # Comma

====
